---- MODULE Spec2Model ----
(***************************************************************************)
(* The atomic numeric cells of src/src/atomic64.rs: the Number             *)
(* conversions, AtomicI64, AtomicU64 and AtomicF64, with every atomic      *)
(* load, store, fetch-add, fetch-sub and compare-and-swap as one step.     *)
(*                                                                         *)
(* 64-bit quantities do not fit TLC's integers, so a natural number is a   *)
(* little-endian sequence of 16-bit limbs without leading zero limbs, an   *)
(* integer is a sign and a magnitude, and an f64 is its three IEEE-754     *)
(* fields.  All arithmetic is carried out at full width.                   *)
(***************************************************************************)
EXTENDS Integers, Sequences, FiniteSets, TLC

\* ------------------------------------------------------------ naturals

\* The width of the atomic words (std AtomicI64 / AtomicU64).
WordBits == 64
LimbBits == WordBits \div 4
Base == 2 ^ LimbBits

Max(a, b) == IF a >= b THEN a ELSE b
Min(a, b) == IF a <= b THEN a ELSE b

Limb(a, i) == IF i >= 1 /\ i <= Len(a) THEN a[i] ELSE 0

RECURSIVE Trim(_)
Trim(a) ==
  IF a = <<>> THEN a
  ELSE IF a[Len(a)] = 0 THEN Trim(SubSeq(a, 1, Len(a) - 1)) ELSE a

\* The natural number n (0 <= n < 2^31) as limbs.
NatOf(n) == Trim(<<n % Base, n \div Base>>)

RECURSIVE AddFrom(_, _, _, _)
AddFrom(a, b, i, c) ==
  IF i > Max(Len(a), Len(b))
  THEN (IF c = 0 THEN <<>> ELSE <<c>>)
  ELSE LET s == Limb(a, i) + Limb(b, i) + c
       IN  <<s % Base>> \o AddFrom(a, b, i + 1, s \div Base)

NatAdd(a, b) == Trim(AddFrom(a, b, 1, 0))

RECURSIVE SubFrom(_, _, _, _)
SubFrom(a, b, i, c) ==
  IF i > Len(a)
  THEN <<>>
  ELSE LET s == Limb(a, i) - Limb(b, i) - c
       IN  <<(s + Base) % Base>> \o SubFrom(a, b, i + 1, IF s < 0 THEN 1 ELSE 0)

\* a - b for a >= b.
NatSub(a, b) == Trim(SubFrom(a, b, 1, 0))

\* -1, 0 or 1 as a < b, a = b or a > b.
RECURSIVE CmpFrom(_, _, _)
CmpFrom(a, b, i) ==
  IF i = 0 THEN 0
  ELSE IF Limb(a, i) < Limb(b, i) THEN -1
  ELSE IF Limb(a, i) > Limb(b, i) THEN 1
  ELSE CmpFrom(a, b, i - 1)

NatCmp(a, b) == CmpFrom(a, b, Max(Len(a), Len(b)))

\* a * 2^k.
NatShl(a, k) ==
  LET q == k \div LimbBits
      r == k % LimbBits
  IN  Trim([i \in 1..(Len(a) + q + 1) |->
              ((Limb(a, i - q) % (2 ^ (LimbBits - r))) * (2 ^ r))
                + (Limb(a, i - q - 1) \div (2 ^ (LimbBits - r)))])

\* a \div 2^k.
NatShr(a, k) ==
  LET q == k \div LimbBits
      r == k % LimbBits
  IN  Trim([i \in 1..Max(Len(a) - q, 0) |->
              (Limb(a, i + q) \div (2 ^ r))
                + ((Limb(a, i + q + 1) % (2 ^ r)) * (2 ^ (LimbBits - r)))])

\* a % 2^k.
NatLow(a, k) ==
  LET q == k \div LimbBits
      r == k % LimbBits
  IN  Trim([i \in 1..(q + 1) |->
              IF i <= q THEN Limb(a, i) ELSE Limb(a, i) % (2 ^ r)])

RECURSIVE BitLenSmall(_)
BitLenSmall(n) == IF n = 0 THEN 0 ELSE 1 + BitLenSmall(n \div 2)

\* The number of bits of a (0 for 0); a has no leading zero limb.
NatBitLen(a) ==
  IF a = <<>> THEN 0 ELSE LimbBits * (Len(a) - 1) + BitLenSmall(a[Len(a)])

NatOdd(a) == Limb(a, 1) % 2 = 1

Pow2(k) == NatShl(<<1>>, k)

\* ------------------------------------------------------------ integers

\* A mathematical integer: sign and magnitude (zero is never negative).
Int_(neg, mag) == [neg |-> neg /\ mag # <<>>, mag |-> mag]

\* The integer n (|n| < 2^31).
IntOf(n) == Int_(n < 0, NatOf(IF n < 0 THEN -n ELSE n))

TwoTo64 == Pow2(WordBits)
TwoTo63 == Pow2(WordBits - 1)

\* An i64 is an integer in -2^63 .. 2^63-1, a u64 an integer in 0 .. 2^64-1.
I64_MAX == Int_(FALSE, NatSub(TwoTo63, <<1>>))
I64_MIN == Int_(TRUE, TwoTo63)
U64_MAX == Int_(FALSE, NatSub(TwoTo64, <<1>>))

IsI64(v) == IF v.neg THEN NatCmp(v.mag, TwoTo63) <= 0 ELSE NatCmp(v.mag, TwoTo63) < 0
IsU64(v) == ~v.neg /\ NatCmp(v.mag, TwoTo64) < 0

\* The 64-bit two's-complement word of an i64, as a natural below 2^64.
I64Bits(v) == IF v.neg THEN NatSub(TwoTo64, v.mag) ELSE v.mag

\* The i64 a 64-bit word denotes.
I64OfBits(w) ==
  IF NatCmp(w, TwoTo63) >= 0 THEN Int_(TRUE, NatSub(TwoTo64, w)) ELSE Int_(FALSE, w)

\* The word of a u64 and back: a u64 is its own word.
U64Bits(v) == v.mag
U64OfBits(w) == Int_(FALSE, w)

\* Addition and subtraction of 64-bit words modulo 2^64.
WordAdd(a, b) == NatLow(NatAdd(a, b), WordBits)
WordSub(a, b) == NatLow(NatAdd(a, NatSub(TwoTo64, b)), WordBits)

\* ------------------------------------------------------------ f64

\* IEEE-754 binary64: 1 sign bit, 11 exponent bits, 52 fraction bits.
FracBits == 52
ExpBits == 11
ExpMax == 2 ^ ExpBits - 1
SigBits == FracBits + 1

F64(sign, exp, frac) == [sign |-> sign, exp |-> exp, frac |-> frac]

IsNaN(f) == f.exp = ExpMax /\ f.frac # <<>>
IsInf(f) == f.exp = ExpMax /\ f.frac = <<>>
IsZero(f) == f.exp = 0 /\ f.frac = <<>>

\* A NaN with its quiet bit set.
Quiet(f) ==
  F64(f.sign, f.exp,
      IF NatCmp(f.frac, Pow2(FracBits - 1)) >= 0 THEN f.frac
      ELSE NatAdd(f.frac, Pow2(FracBits - 1)))

\* (mutation of from_bits: a signalling NaN comes back quieted)
from_bits_quieting(w) ==
  LET hi == NatShr(w, FracBits)
      top == IF hi = <<>> THEN 0 ELSE hi[1]
      f == F64(top \div (2 ^ ExpBits), top % (2 ^ ExpBits), NatLow(w, FracBits))
  IN  IF IsNaN(f) THEN Quiet(f) ELSE f

\* f64::from_bits: the fields of a 64-bit pattern.
from_bits(w) ==
  LET hi == NatShr(w, FracBits)
      top == IF hi = <<>> THEN 0 ELSE hi[1]
  IN  F64(top \div (2 ^ ExpBits), top % (2 ^ ExpBits), NatLow(w, FracBits))

\* f64::to_bits: the 64-bit pattern of the fields.
to_bits(f) ==
  NatAdd(NatShl(NatOf(f.sign * (2 ^ ExpBits) + f.exp), FracBits), f.frac)

\* Unary minus on f64 flips the sign bit, of a NaN too.
FNeg(f) == F64(1 - f.sign, f.exp, f.frac)

\* The significand and the exponent of its unit: a finite f is
\* (-1)^sign * Sig(f) * 2^(UnitExp(f) - 1075).
Sig(f) == IF f.exp = 0 THEN f.frac ELSE NatAdd(f.frac, Pow2(FracBits))
UnitExp(f) == IF f.exp = 0 THEN 1 ELSE f.exp

FInf(sign) == F64(sign, ExpMax, <<>>)
QNaN(sign) == F64(sign, ExpMax, Pow2(FracBits - 1))

\* (-1)^sign * m * 2^(e - 1075), e >= 1, rounded to nearest, ties to even:
\* the f64 and whether it is the exact value.
RoundPack(sign, m, e) ==
  LET len == NatBitLen(m)
  IN  IF len = 0 THEN [val |-> F64(sign, 0, <<>>), exact |-> TRUE]
      ELSE IF len <= SigBits
      THEN LET sh == Min(SigBits - len, e - 1)
               m2 == NatShl(m, sh)
           IN  IF NatBitLen(m2) = SigBits
               THEN [val |-> F64(sign, e - sh, NatSub(m2, Pow2(FracBits))),
                     exact |-> (e - sh) < ExpMax]
               ELSE [val |-> F64(sign, 0, m2), exact |-> TRUE]
      ELSE LET r == len - SigBits
               q == NatShr(m, r)
               rem == NatLow(m, r)
               c == NatCmp(rem, Pow2(r - 1))
               up == c > 0 \/ (c = 0 /\ NatOdd(q))
               q2 == IF up THEN NatAdd(q, <<1>>) ELSE q
               carry == NatBitLen(q2) > SigBits
               q3 == IF carry THEN NatShr(q2, 1) ELSE q2
               e3 == IF carry THEN e + r + 1 ELSE e + r
           IN  IF e3 >= ExpMax
               THEN [val |-> FInf(sign), exact |-> FALSE]
               ELSE [val |-> F64(sign, e3, NatSub(q3, Pow2(FracBits))),
                     exact |-> rem = <<>>]

\* Far enough apart that the smaller operand is below 1/128 of the larger's
\* last place: the sum rounds to the larger.
AbsorbGap == SigBits + 8

\* a + b for finite a, b with UnitExp(a) >= UnitExp(b).
FAddOrdered(a, b) ==
  LET d == UnitExp(a) - UnitExp(b)
      ma == NatShl(Sig(a), d)
      mb == Sig(b)
      c == NatCmp(ma, mb)
  IN  IF d > AbsorbGap THEN [val |-> a, exact |-> IsZero(b)]
      ELSE IF a.sign = b.sign THEN RoundPack(a.sign, NatAdd(ma, mb), UnitExp(b))
      ELSE IF c = 0 THEN [val |-> F64(0, 0, <<>>), exact |-> TRUE]
      ELSE IF c > 0 THEN RoundPack(a.sign, NatSub(ma, mb), UnitExp(b))
      ELSE RoundPack(b.sign, NatSub(mb, ma), UnitExp(b))

FAddFinite(a, b) ==
  IF UnitExp(a) >= UnitExp(b) THEN FAddOrdered(a, b) ELSE FAddOrdered(b, a)

\* The f64 sum a + b: one value, except that the sign and payload of a NaN
\* result are not fixed by the language: any of the listed NaNs.
FAdd(a, b) ==
  IF IsNaN(a) \/ IsNaN(b) \/ (IsInf(a) /\ IsInf(b) /\ a.sign # b.sign)
  THEN {QNaN(0), QNaN(1)} \cup {Quiet(f) : f \in {g \in {a, b} : IsNaN(g)}}
  ELSE IF IsInf(a) THEN {a}
  ELSE IF IsInf(b) THEN {b}
  ELSE {FAddFinite(a, b).val}

\* Whether a + b is finite and equal to the real sum.
FAddExact(a, b) ==
  /\ a.exp # ExpMax
  /\ b.exp # ExpMax
  /\ FAddFinite(a, b).exact

\* The comparison == of f64: zeros of either sign are equal, a NaN equals nothing.
FEq(a, b) ==
  /\ ~IsNaN(a)
  /\ ~IsNaN(b)
  /\ (a = b \/ (IsZero(a) /\ IsZero(b)))

\* v as f64 for an integer v: the nearest f64, ties to even.
IntToF64(v) == RoundPack(IF v.neg THEN 1 ELSE 0, v.mag, 2 ^ (ExpBits - 1) + FracBits - 1).val

\* ------------------------------------------------------------ Number

\* impl Number for i64: from_i64(v) is v itself.
i64_from_i64(v) == v

\* (mutation of u64_from_i64: the magnitude of v instead of its 64-bit word)
u64_from_i64_abs(v) == Int_(FALSE, v.mag)

\* impl Number for u64: from_i64(v) is `v as u64`, the u64 with v's 64-bit word.
u64_from_i64(v) == U64OfBits(I64Bits(v))

\* impl Number for f64: from_i64(v) is `v as f64`.
f64_from_i64(v) == IntToF64(v)

Types == {"i64", "u64", "f64"}

from_i64(T, v) ==
  IF T = "i64" THEN i64_from_i64(v)
  ELSE IF T = "u64" THEN u64_from_i64(v)
  ELSE f64_from_i64(v)

\* ------------------------------------------------------------ the cells

\* The reinterpretations between the f64 and the u64 stored in AtomicF64.
u64_to_f64(val) == from_bits(U64Bits(val))
f64_to_u64(val) == U64OfBits(to_bits(val))

\* std's atomic read-modify-write operations: the value they leave in the word.
\* fetch_add and fetch_sub wrap around on overflow.
\* (mutations: an add that subtracts, a subtraction that stops at zero)
i64_fetch_add_subtracts(cur, val) == I64OfBits(WordSub(I64Bits(cur), I64Bits(val)))
u64_fetch_sub_saturating(cur, val) ==
  IF NatCmp(U64Bits(cur), U64Bits(val)) < 0 THEN U64OfBits(<<>>)
  ELSE U64OfBits(NatSub(U64Bits(cur), U64Bits(val)))

\* (mutation of i64_fetch_add: an addition that stops with an overflow
\* instead of wrapping)
Overflowed == [overflowed |-> TRUE]
i64_fetch_add_checked(cur, val) ==
  LET w == I64OfBits(WordAdd(I64Bits(cur), I64Bits(val)))
  IN  IF cur.neg = val.neg /\ w.neg # cur.neg /\ val.mag # <<>> THEN Overflowed ELSE w

i64_fetch_add(cur, val) == I64OfBits(WordAdd(I64Bits(cur), I64Bits(val)))
i64_fetch_sub(cur, val) == I64OfBits(WordSub(I64Bits(cur), I64Bits(val)))
u64_fetch_add(cur, val) == U64OfBits(WordAdd(U64Bits(cur), U64Bits(val)))
u64_fetch_sub(cur, val) == U64OfBits(WordSub(U64Bits(cur), U64Bits(val)))

\* (mutation of compare_and_swap: the comparison never succeeds)
compare_and_swap_refusing(cur, expected, newval) ==
  [word |-> cur, previous |-> [refused |-> expected]]

\* (mutation of compare_and_swap: the new value is stored without comparing)
compare_and_swap_blind(cur, expected, newval) ==
  [word |-> newval, previous |-> expected]

\* compare_and_swap(current, new): the word afterwards and the value returned
\* (the previous content).
compare_and_swap(cur, expected, newval) ==
  [word |-> IF cur = expected THEN newval ELSE cur, previous |-> cur]

\* Atomic::new: the content of `inner` after construction.
AtomicF64_new(val) == f64_to_u64(val)
AtomicI64_new(val) == val
AtomicU64_new(val) == val

new(T, val) ==
  IF T = "i64" THEN AtomicI64_new(val)
  ELSE IF T = "u64" THEN AtomicU64_new(val)
  ELSE AtomicF64_new(val)

\* ------------------------------------------------------------ bounds

\* Worker threads sharing the cell, and update calls (set, inc_by, dec_by)
\* each of them makes.
NThreads == 2
MaxCalls == 2

\* The history counters (calls completed, failed attempts, writes seen) count
\* up to CallCap and stay there.
CallCap == 4
Bump(n) == IF n < CallCap THEN n + 1 ELSE n

Threads == 1..NThreads

None == [none |-> TRUE]

\* ------------------------------------------------------------ state

VARIABLES
  ty,       \* the type of the cell under test: "i64", "u64" or "f64"
  inner,    \* the cell's atomic word (AtomicI64.inner, AtomicU64.inner, AtomicF64.inner)
  pc,       \* per thread: "idle", or its place in AtomicF64::inc_by: "load", "cas"
  op,       \* per thread: the call it is in ("inc_by", "dec_by"), "none" when idle
  arg,      \* per thread: the argument of that call
  delta,    \* per thread: inc_by's parameter delta
  current,  \* per thread: inc_by's local `current`
  newval,   \* per thread: inc_by's local `new`
  calls,    \* per thread: update calls completed
  ret,      \* what the latest get() returned, None once the cell is written again
  init,     \* history: the value the cell was constructed with
  net,      \* history: the sum of the deltas of the inc_by / dec_by calls started
  exact,    \* history: every f64 addition swapped in so far was exact
  ev,       \* history: the latest write attempt on the cell
  raced,    \* history: some compare-and-swap has failed
  conv,     \* the latest Number::from_i64 conversion: argument and results
  plan,     \* the values a fixed scenario was started with, None otherwise
  tally     \* history, per thread inside inc_by: its failed compare-and-swaps, the
            \* writes of other threads during the call and since its latest load

vars ==
  <<ty, inner, pc, op, arg, delta, current, newval, calls, ret, init, net, exact, ev, raced, conv, plan, tally>>

Idle(t) == pc[t] = "idle"
AllIdle == \A t \in Threads : Idle(t)

\* The counters of a thread at the start of a call, and the entry of a thread
\* in a scenario that keeps no count.
NoTally == [on |-> TRUE, fails |-> 0, writes |-> 0, since |-> 0]
Untallied == [on |-> FALSE, fails |-> 0, writes |-> 0, since |-> 0]

\* The state after `new(T, val)`.
ConstructedWith(T, val, p, count) ==
  /\ ty = T
  /\ inner = new(T, val)
  /\ pc = [t \in Threads |-> "idle"]
  /\ op = [t \in Threads |-> "none"]
  /\ arg = [t \in Threads |-> None]
  /\ delta = [t \in Threads |-> None]
  /\ current = [t \in Threads |-> None]
  /\ newval = [t \in Threads |-> None]
  /\ calls = [t \in Threads |-> 0]
  /\ ret = None
  /\ init = val
  /\ net = 0
  /\ exact = TRUE
  /\ ev = [call |-> "new", step |-> "new", t |-> 0, arg |-> val, before |-> None,
           ok |-> TRUE, loaded |-> None]
  /\ raced = FALSE
  /\ conv = None
  /\ plan = p
  /\ tally = [t \in Threads |-> count]

ConstructedFor(T, val, p) == ConstructedWith(T, val, p, Untallied)
Constructed(T, val) == ConstructedFor(T, val, None)
\* The same, with the attempts of the calls counted.
Tallied(T, val) == ConstructedWith(T, val, None, NoTally)

\* History of a write attempt by t: the call it belongs to, the atomic step,
\* the call's argument, the content before the step, whether the step wrote,
\* and for a compare-and-swap the value it expected.  A write is counted for
\* every other thread that is inside inc_by; a failed compare-and-swap is
\* counted for t; t's counters start again when its call returns.
Noted(t, call, step, a, ok) ==
  /\ ev' = [call |-> call, step |-> step, t |-> t, arg |-> a, before |-> inner,
            ok |-> ok, loaded |-> IF step = "cas" THEN current[t] ELSE None]
  /\ raced' = (raced \/ ~ok)
  /\ ret' = None
  /\ tally' = [u \in Threads |->
       IF ~tally[u].on THEN tally[u]
       ELSE IF u = t
       THEN (IF step = "cas" /\ ~ok
             THEN [tally[u] EXCEPT !.fails = Bump(@)]
             ELSE NoTally)
       ELSE IF ok /\ ~Idle(u)
       THEN [tally[u] EXCEPT !.writes = Bump(@), !.since = Bump(@)]
       ELSE tally[u]]

Returned(t) == calls' = [calls EXCEPT ![t] = Bump(@)]

\* The cell actions below leave `net` and `conv` to the caller: a step that is
\* no delta of a scenario and uses no conversion leaves both alone.
Plain == UNCHANGED <<net, conv>>

\* ------------------------------------------------------------ AtomicI64

\* (mutation of set: the value is added to the cell instead of stored)
AtomicI64_set_adding(t, val) ==
  /\ ty = "i64" /\ Idle(t)
  /\ inner' = i64_fetch_add(inner, val)
  /\ Noted(t, "set", "store", val, TRUE)
  /\ Returned(t)
  /\ UNCHANGED <<ty, pc, op, arg, delta, current, newval, init, exact, plan>>

AtomicI64_set(t, val) ==
  /\ ty = "i64" /\ Idle(t)
  /\ inner' = val
  /\ Noted(t, "set", "store", val, TRUE)
  /\ Returned(t)
  /\ UNCHANGED <<ty, pc, op, arg, delta, current, newval, init, exact, plan>>

AtomicI64_get(t) ==
  /\ ty = "i64" /\ Idle(t)
  /\ ret' = inner
  /\ UNCHANGED <<ty, inner, pc, op, arg, delta, current, newval, calls, init, exact, ev, raced, plan, tally>>

AtomicI64_inc_by(t, d) ==
  /\ ty = "i64" /\ Idle(t)
  /\ inner' = i64_fetch_add(inner, d)
  /\ Noted(t, "inc_by", "fetch_add", d, TRUE)
  /\ Returned(t)
  /\ UNCHANGED <<ty, pc, op, arg, delta, current, newval, init, exact, plan>>

AtomicI64_dec_by(t, d) ==
  /\ ty = "i64" /\ Idle(t)
  /\ inner' = i64_fetch_sub(inner, d)
  /\ Noted(t, "dec_by", "fetch_sub", d, TRUE)
  /\ Returned(t)
  /\ UNCHANGED <<ty, pc, op, arg, delta, current, newval, init, exact, plan>>

\* ------------------------------------------------------------ AtomicU64

AtomicU64_set(t, val) ==
  /\ ty = "u64" /\ Idle(t)
  /\ inner' = val
  /\ Noted(t, "set", "store", val, TRUE)
  /\ Returned(t)
  /\ UNCHANGED <<ty, pc, op, arg, delta, current, newval, init, exact, plan>>

AtomicU64_get(t) ==
  /\ ty = "u64" /\ Idle(t)
  /\ ret' = inner
  /\ UNCHANGED <<ty, inner, pc, op, arg, delta, current, newval, calls, init, exact, ev, raced, plan, tally>>

AtomicU64_inc_by(t, d) ==
  /\ ty = "u64" /\ Idle(t)
  /\ inner' = u64_fetch_add(inner, d)
  /\ Noted(t, "inc_by", "fetch_add", d, TRUE)
  /\ Returned(t)
  /\ UNCHANGED <<ty, pc, op, arg, delta, current, newval, init, exact, plan>>

AtomicU64_dec_by(t, d) ==
  /\ ty = "u64" /\ Idle(t)
  /\ inner' = u64_fetch_sub(inner, d)
  /\ Noted(t, "dec_by", "fetch_sub", d, TRUE)
  /\ Returned(t)
  /\ UNCHANGED <<ty, pc, op, arg, delta, current, newval, init, exact, plan>>

\* ------------------------------------------------------------ AtomicF64

AtomicF64_set(t, val) ==
  /\ ty = "f64" /\ Idle(t)
  /\ inner' = f64_to_u64(val)
  /\ Noted(t, "set", "store", val, TRUE)
  /\ Returned(t)
  /\ UNCHANGED <<ty, pc, op, arg, delta, current, newval, init, exact, plan>>

\* (mutation of get: the load is a swap that takes the value out of the cell)
AtomicF64_get_and_reset(t) ==
  /\ ty = "f64" /\ Idle(t)
  /\ ret' = u64_to_f64(inner)
  /\ inner' = U64OfBits(<<>>)
  /\ UNCHANGED <<ty, pc, op, arg, delta, current, newval, calls, init, exact, ev, raced, plan, tally>>

AtomicF64_get(t) ==
  /\ ty = "f64" /\ Idle(t)
  /\ ret' = u64_to_f64(inner)
  /\ UNCHANGED <<ty, inner, pc, op, arg, delta, current, newval, calls, init, exact, ev, raced, plan, tally>>

\* Entry into inc_by(d), on behalf of the call `call(a)`.
inc_by_enter(t, call, a, d) ==
  /\ ty = "f64" /\ Idle(t)
  /\ pc' = [pc EXCEPT ![t] = "load"]
  /\ op' = [op EXCEPT ![t] = call]
  /\ arg' = [arg EXCEPT ![t] = a]
  /\ delta' = [delta EXCEPT ![t] = d]
  /\ UNCHANGED <<ty, inner, current, newval, calls, ret, init, exact, ev, raced, plan, tally>>

\* (mutation of inc_by: a delta of zero returns at once, without load or swap)
AtomicF64_inc_by_unless_zero(t, d) ==
  IF IsZero(d)
  THEN /\ ty = "f64" /\ Idle(t)
       /\ Returned(t)
       /\ UNCHANGED <<ty, inner, pc, op, arg, delta, current, newval, ret, init,
                      exact, ev, raced, plan, tally>>
  ELSE inc_by_enter(t, "inc_by", d, d)

AtomicF64_inc_by(t, d) == inc_by_enter(t, "inc_by", d, d)

\* (mutation of dec_by: the delta is passed on without the minus)
AtomicF64_dec_by_plain(t, d) == inc_by_enter(t, "dec_by", d, d)

\* dec_by(delta) is self.inc_by(-delta).
AtomicF64_dec_by(t, d) == inc_by_enter(t, "dec_by", d, FNeg(d))

\* One iteration of inc_by's loop, first half: the load of `current` and the
\* local computation of `new`.
inc_by_load(t) ==
  /\ ty = "f64" /\ pc[t] = "load"
  /\ current' = [current EXCEPT ![t] = inner]
  /\ \E n \in FAdd(u64_to_f64(inner), delta[t]) :
       newval' = [newval EXCEPT ![t] = n]
  /\ pc' = [pc EXCEPT ![t] = "cas"]
  /\ tally' = [tally EXCEPT ![t].since = 0]
  /\ UNCHANGED <<ty, inner, op, arg, delta, calls, ret, init, exact, ev, raced, plan>>

\* (mutation of the second half: the call returns whether or not the swap took place)
inc_by_cas_once(t) ==
  /\ ty = "f64" /\ pc[t] = "cas"
  /\ LET r == compare_and_swap(inner, current[t], f64_to_u64(newval[t]))
         swapped == r.previous
     IN  /\ inner' = r.word
         /\ Noted(t, op[t], "cas", arg[t], swapped = current[t])
         /\ exact' = (exact /\ FAddExact(u64_to_f64(current[t]), delta[t]))
  /\ pc' = [pc EXCEPT ![t] = "idle"]
  /\ op' = [op EXCEPT ![t] = "none"]
  /\ arg' = [arg EXCEPT ![t] = None]
  /\ delta' = [delta EXCEPT ![t] = None]
  /\ Returned(t)
  /\ current' = [current EXCEPT ![t] = None]
  /\ newval' = [newval EXCEPT ![t] = None]
  /\ UNCHANGED <<ty, init, plan>>

\* Second half: the compare-and-swap, then the return or the next iteration.
inc_by_cas(t) ==
  /\ ty = "f64" /\ pc[t] = "cas"
  /\ LET r == compare_and_swap(inner, current[t], f64_to_u64(newval[t]))
         swapped == r.previous
     IN  /\ inner' = r.word
         /\ Noted(t, op[t], "cas", arg[t], swapped = current[t])
         /\ IF swapped = current[t]
            THEN /\ pc' = [pc EXCEPT ![t] = "idle"]
                 /\ op' = [op EXCEPT ![t] = "none"]
                 /\ arg' = [arg EXCEPT ![t] = None]
                 /\ delta' = [delta EXCEPT ![t] = None]
                 /\ Returned(t)
                 /\ exact' = (exact /\ FAddExact(u64_to_f64(current[t]), delta[t]))
            ELSE /\ pc' = [pc EXCEPT ![t] = "load"]
                 /\ UNCHANGED <<op, arg, delta, calls, exact>>
  /\ current' = [current EXCEPT ![t] = None]
  /\ newval' = [newval EXCEPT ![t] = None]
  /\ UNCHANGED <<ty, init, plan>>

\* ------------------------------------------------------------ values

Zero == IntOf(0)
One == IntOf(1)

F64_ZERO == F64(0, 0, <<>>)
F64_ONE == f64_from_i64(One)
\* std::f64::consts::PI, 0x400921FB54442D18.
F64_PI == from_bits(<<11544, 21572, 8699, 16393>>)
F64_MAX == F64(0, ExpMax - 1, NatSub(Pow2(FracBits), <<1>>))
F64_MIN == FNeg(F64_MAX)
\* 2^53, from which adding 1.0 is no longer exact.
F64_2P53 == F64(0, 2 ^ (ExpBits - 1) + FracBits, <<>>)
\* The smallest positive subnormal.
F64_TINY == F64(0, 0, <<1>>)

\* ------------------------------------------------------------ threads sharing a cell

CanCall(t) == calls[t] < MaxCalls

RECURSIVE SumTo(_, _)
SumTo(f, n) == IF n = 0 THEN 0 ELSE f[n] + SumTo(f, n - 1)
\* Calls started: those completed and those a thread is in.
Started == SumTo([t \in Threads |-> calls[t] + (IF Idle(t) THEN 0 ELSE 1)], NThreads)

\* The update calls the threads of the general scenario make, all together.
SpecCalls == 2
MayCall(t) == Started < SpecCalls

\* A call whose delta is T::from_i64(n): n enters the sum of the deltas.
Counted(n) == net' = net + n /\ UNCHANGED conv

I64Vals == {Zero, One, I64_MAX}
U64Vals == {Zero, One, U64_MAX}
F64Vals == {F64_ZERO, F64_ONE, F64_2P53}
Vals(T) == IF T = "i64" THEN I64Vals ELSE IF T = "u64" THEN U64Vals ELSE F64Vals

\* The deltas of the library's counters and gauges: T::from_i64 of small integers.
Deltas == {1}

Init == \E T \in Types : \E v \in Vals(T) : Constructed(T, v)

Next ==
  \E t \in Threads :
    \/ \E v \in I64Vals : MayCall(t) /\ AtomicI64_set(t, v) /\ Plain
    \/ \E v \in U64Vals : MayCall(t) /\ AtomicU64_set(t, v) /\ Plain
    \/ \E v \in F64Vals : MayCall(t) /\ AtomicF64_set(t, v) /\ Plain
    \/ AtomicI64_get(t) /\ Plain
    \/ AtomicU64_get(t) /\ Plain
    \/ AtomicF64_get(t) /\ Plain
    \/ \E n \in Deltas :
         MayCall(t) /\ AtomicI64_inc_by(t, from_i64("i64", IntOf(n))) /\ Counted(n)
    \/ \E n \in Deltas :
         MayCall(t) /\ AtomicU64_inc_by(t, from_i64("u64", IntOf(n))) /\ Counted(n)
    \/ \E n \in Deltas :
         MayCall(t) /\ AtomicF64_inc_by(t, from_i64("f64", IntOf(n))) /\ Counted(n)
    \/ \E n \in Deltas :
         MayCall(t) /\ AtomicI64_dec_by(t, from_i64("i64", IntOf(n))) /\ Counted(-n)
    \/ \E n \in Deltas :
         MayCall(t) /\ AtomicU64_dec_by(t, from_i64("u64", IntOf(n))) /\ Counted(-n)
    \/ \E n \in Deltas :
         MayCall(t) /\ AtomicF64_dec_by(t, from_i64("f64", IntOf(n))) /\ Counted(-n)
    \/ inc_by_load(t) /\ Plain
    \/ inc_by_cas(t) /\ Plain

Spec == Init /\ [][Next]_vars

\* ------------------------------------------------------------ one thread alone

\* The update calls the single thread makes.
SeqCalls == 2

\* A signalling NaN with a payload.
F64_SNAN == F64(1, ExpMax, <<1>>)

SeqI64 == {Zero, One, IntOf(-5), I64_MAX, I64_MIN}
SeqU64 == {Zero, One, IntOf(123), U64_MAX}
SeqF64 ==
  {F64_ZERO, FNeg(F64_ZERO), F64_ONE, F64_PI, F64_MAX, F64_MIN, F64_2P53,
   F64_TINY, FInf(0), F64_SNAN}
SeqVals(T) == IF T = "i64" THEN SeqI64 ELSE IF T = "u64" THEN SeqU64 ELSE SeqF64
SeqF64Deltas == {F64_ZERO, F64_ONE, F64_MAX, F64_TINY, FInf(1), F64_SNAN}

\* The integers handed to Number::from_i64.
SeqFrom == {Zero, One, IntOf(-1), IntOf(-5), IntOf(123), I64_MAX, I64_MIN}

SeqCan == calls[1] < SeqCalls

\* A delta given directly, or the result of the pending T::from_i64(v), as in
\* the metric types' inc_by(T::from_i64(1)).
SeqDelta(S) == IF conv = None THEN S ELSE {conv.out}
Used == UNCHANGED net /\ conv' = None

\* T::from_i64(v), to be passed to the next call.
SeqConvert(T, v) ==
  /\ ty = T /\ Idle(1) /\ SeqCan /\ conv = None
  /\ conv' = [T |-> T, v |-> v, out |-> from_i64(T, v)]
  /\ UNCHANGED <<ty, inner, pc, op, arg, delta, current, newval, calls, ret,
                 init, net, exact, ev, raced, plan, tally>>

InitSeq == \E T \in Types : \E v \in SeqVals(T) : Constructed(T, v)

NextSeq ==
  \/ AtomicI64_get(1) /\ Plain
  \/ AtomicU64_get(1) /\ Plain
  \/ AtomicF64_get(1) /\ Plain
  \/ \E d \in SeqDelta(SeqI64) : SeqCan /\ AtomicI64_inc_by(1, d) /\ Used
  \/ \E d \in SeqDelta(SeqU64) : SeqCan /\ AtomicU64_inc_by(1, d) /\ Used
  \/ \E d \in SeqDelta(SeqF64Deltas) : SeqCan /\ AtomicF64_inc_by(1, d) /\ Used
  \/ \E d \in SeqDelta(SeqI64) : SeqCan /\ AtomicI64_dec_by(1, d) /\ Used
  \/ \E d \in SeqDelta(SeqU64) : SeqCan /\ AtomicU64_dec_by(1, d) /\ Used
  \/ \E d \in SeqDelta(SeqF64Deltas) : SeqCan /\ AtomicF64_dec_by(1, d) /\ Used
  \/ inc_by_load(1) /\ Plain
  \/ inc_by_cas(1) /\ Plain
  \/ \E T \in Types : \E v \in SeqFrom : SeqConvert(T, v)

SpecSeq == InitSeq /\ [][NextSeq]_vars

\* ------------------------------------------------------------ arithmetic the claims are stated in

\* Addition and subtraction of mathematical integers.
IntNeg(a) == Int_(~a.neg, a.mag)
IntAdd(a, b) ==
  IF a.neg = b.neg THEN Int_(a.neg, NatAdd(a.mag, b.mag))
  ELSE LET c == NatCmp(a.mag, b.mag)
       IN  IF c = 0 THEN Int_(FALSE, <<>>)
           ELSE IF c > 0 THEN Int_(a.neg, NatSub(a.mag, b.mag))
           ELSE Int_(b.neg, NatSub(b.mag, a.mag))
IntSub(a, b) == IntAdd(a, IntNeg(b))

Int2To64 == Int_(FALSE, TwoTo64)

\* The integer congruent to z modulo 2^64 in the i64 range and in the u64 range,
\* for z within 2^64 of the range.
ModI64(z) ==
  IF IsI64(z) THEN z ELSE IF z.neg THEN IntAdd(z, Int2To64) ELSE IntSub(z, Int2To64)
ModU64(z) ==
  IF IsU64(z) THEN z ELSE IF z.neg THEN IntAdd(z, Int2To64) ELSE IntSub(z, Int2To64)

\* x + d and x - d in the arithmetic of the cell type T: modulo 2^64 for the
\* integers, IEEE-754 for f64 (a set: a NaN result has no fixed payload).
SumIn(T, x, d) ==
  IF T = "i64" THEN {ModI64(IntAdd(x, d))}
  ELSE IF T = "u64" THEN {ModU64(IntAdd(x, d))}
  ELSE FAdd(x, d)
DiffIn(T, x, d) ==
  IF T = "i64" THEN {ModI64(IntSub(x, d))}
  ELSE IF T = "u64" THEN {ModU64(IntSub(x, d))}
  ELSE FAdd(x, FNeg(d))

\* The value of type T a content of `inner` stands for.
ValueOf(T, word) == IF T = "f64" THEN u64_to_f64(word) ELSE word

\* ------------------------------------------------------------ claims of one thread alone (SpecSeq)

\* C3: with no other thread touching the cell, inc_by(d) followed by get()
\* returns x + d and dec_by(d) followed by get() returns x - d, x being the
\* value before the call, in the arithmetic of the cell type.
C3_SequentialIncDec ==
  (ret # None /\ ev.ok) =>
    /\ ev.call = "inc_by" => ret \in SumIn(ty, ValueOf(ty, ev.before), ev.arg)
    /\ ev.call = "dec_by" => ret \in DiffIn(ty, ValueOf(ty, ev.before), ev.arg)

\* AtomicI64 from 0: inc_by(1) gave 1, then inc_by(-5) gives -4.
C3_Witness ==
  /\ ty = "i64" /\ init = Zero /\ calls[1] = 2
  /\ ev.call = "inc_by" /\ ev.before = One /\ ev.arg = IntOf(-5)
  /\ ret = IntOf(-4)

\* C4: new(v).get() returns v unchanged; for f64, the same 64-bit pattern.
C4_NewGetRoundTrip ==
  (ret # None /\ ev.call = "new") => (ret = init /\ ret = ev.arg)

\* A signalling NaN with a payload comes back bit for bit.
C4_Witness == ty = "f64" /\ ev.call = "new" /\ init = F64_SNAN /\ ret = F64_SNAN

\* C9: the integer cells wrap modulo 2^64 and the call returns normally:
\* i64::MAX + 1 is i64::MIN, i64::MIN - 1 is i64::MAX, u64::MAX + 1 is 0,
\* 0 - 1 is u64::MAX.
C9_IntegerWrap ==
  (ty \in {"i64", "u64"} /\ ev.call \in {"inc_by", "dec_by"}) =>
    /\ Idle(ev.t) /\ calls[ev.t] >= 1
    /\ IF ty = "i64" THEN IsI64(inner) ELSE IsU64(inner)
    /\ ev.call = "inc_by" => inner \in SumIn(ty, ev.before, ev.arg)
    /\ ev.call = "dec_by" => inner \in DiffIn(ty, ev.before, ev.arg)
    /\ (ty = "i64" /\ ev.call = "inc_by" /\ ev.before = I64_MAX /\ ev.arg = One)
         => inner = I64_MIN
    /\ (ty = "i64" /\ ev.call = "dec_by" /\ ev.before = I64_MIN /\ ev.arg = One)
         => inner = I64_MAX
    /\ (ty = "u64" /\ ev.call = "inc_by" /\ ev.before = U64_MAX /\ ev.arg = One)
         => inner = Zero
    /\ (ty = "u64" /\ ev.call = "dec_by" /\ ev.before = Zero /\ ev.arg = One)
         => inner = U64_MAX

C9_Witness ==
  /\ ty = "i64" /\ ev.call = "inc_by" /\ ev.before = I64_MAX /\ ev.arg = One
  /\ inner = I64_MIN /\ Idle(1)

\* C10 as stated: i64::from_i64(v) and u64::from_i64(v) are the number v.
C10_FromI64SameValue ==
  (conv # None /\ conv.T \in {"i64", "u64"}) => conv.out = conv.v

\* C10 as the code has it: i64::from_i64(v) is v; u64::from_i64(v) is v for
\* v >= 0 and v + 2^64 for v < 0 (the u64 congruent to v modulo 2^64).
C10_FromI64Modular ==
  (conv # None /\ conv.T \in {"i64", "u64"}) =>
    /\ conv.T = "i64" => conv.out = conv.v
    /\ conv.T = "u64" =>
         /\ IsU64(conv.out)
         /\ conv.out = (IF conv.v.neg THEN IntAdd(conv.v, Int2To64) ELSE conv.v)

\* u64::from_i64(-1) is u64::MAX.
C10_Witness == conv # None /\ conv.T = "u64" /\ conv.v = IntOf(-1) /\ conv.out = U64_MAX

\* ------------------------------------------------------------ N threads, M increments each (SpecInc)

\* Every thread calls inc_by(T::from_i64(1)) MaxCalls times on a cell created
\* with 0; get() is called once all of them have finished.
AllDone == \A t \in Threads : calls[t] = MaxCalls

InitInc == \E T \in Types : Constructed(T, from_i64(T, Zero))

NextInc ==
  \E t \in Threads :
    \/ CanCall(t) /\ AtomicI64_inc_by(t, from_i64("i64", One)) /\ Counted(1)
    \/ CanCall(t) /\ AtomicU64_inc_by(t, from_i64("u64", One)) /\ Counted(1)
    \/ CanCall(t) /\ AtomicF64_inc_by(t, from_i64("f64", One)) /\ Counted(1)
    \/ inc_by_load(t) /\ Plain
    \/ inc_by_cas(t) /\ Plain
    \/ AllDone /\ AtomicI64_get(t) /\ Plain
    \/ AllDone /\ AtomicU64_get(t) /\ Plain
    \/ AllDone /\ AtomicF64_get(t) /\ Plain

SpecInc == InitInc /\ [][NextInc]_vars

\* C1: once all N threads have finished their M calls of inc_by(1) on a cell
\* created with 0, get() returns exactly N*M, for each of the three cells.
C1_NoLostIncrements ==
  ret # None => ret = from_i64(ty, IntOf(NThreads * MaxCalls))

\* The f64 cell, after a run in which some compare-and-swap failed.
C1_Witness ==
  /\ ty = "f64" /\ AllDone /\ raced
  /\ ret = from_i64("f64", IntOf(NThreads * MaxCalls))

\* ------------------------------------------------------------ increments and decrements (SpecMixed)

MixedI64 == {Zero, I64_MAX}
MixedU64 == {Zero, U64_MAX}
MixedF64 == {F64_ZERO, F64_2P53}
MixedVals(T) == IF T = "i64" THEN MixedI64 ELSE IF T = "u64" THEN MixedU64 ELSE MixedF64
MixedDeltas == {1, 2}

\* The inc_by / dec_by calls the threads make, all together.
MixedCalls == 2

MixedCan(t) == Started < MixedCalls
MixedDone == AllIdle /\ Started = MixedCalls

InitMixed == \E T \in Types : \E v \in MixedVals(T) : Constructed(T, v)

NextMixed ==
  \E t \in Threads :
    \/ \E n \in MixedDeltas :
         MixedCan(t) /\ AtomicI64_inc_by(t, from_i64("i64", IntOf(n))) /\ Counted(n)
    \/ \E n \in MixedDeltas :
         MixedCan(t) /\ AtomicU64_inc_by(t, from_i64("u64", IntOf(n))) /\ Counted(n)
    \/ \E n \in MixedDeltas :
         MixedCan(t) /\ AtomicF64_inc_by(t, from_i64("f64", IntOf(n))) /\ Counted(n)
    \/ \E n \in MixedDeltas :
         MixedCan(t) /\ AtomicI64_dec_by(t, from_i64("i64", IntOf(n))) /\ Counted(-n)
    \/ \E n \in MixedDeltas :
         MixedCan(t) /\ AtomicU64_dec_by(t, from_i64("u64", IntOf(n))) /\ Counted(-n)
    \/ \E n \in MixedDeltas :
         MixedCan(t) /\ AtomicF64_dec_by(t, from_i64("f64", IntOf(n))) /\ Counted(-n)
    \/ inc_by_load(t) /\ Plain
    \/ inc_by_cas(t) /\ Plain

SpecMixed == InitMixed /\ [][NextMixed]_vars

\* What get() returns in the current state.
GetNow == ValueOf(ty, inner)

\* The initial value again, as == of the cell type compares.
BackAtInit == IF ty = "f64" THEN FEq(GetNow, init) ELSE GetNow = init

\* C2: when the inc_by / dec_by calls made (no set) have all completed and
\* their deltas sum to zero, get() returns the initial value: modulo 2^64 for
\* the integer cells, and for the f64 cell when its additions were exact.
C2_MixedSumZero ==
  (AllIdle /\ net = 0 /\ exact) => BackAtInit

\* All calls made on the f64 cell, with a failed compare-and-swap on the way.
C2_Witness ==
  /\ ty = "f64" /\ MixedDone /\ net = 0 /\ exact /\ raced
  /\ BackAtInit

\* C8: dec_by(delta) runs inc_by's loop with -delta: a thread in dec_by(d) is in
\* the frame of inc_by(-d), computes the same `new` from the same load, and its
\* compare-and-swap leaves what inc_by(-d)'s leaves.
C8_DecByIsIncByNeg ==
  /\ \A t \in Threads :
       op[t] = "dec_by" =>
         /\ pc[t] \in {"load", "cas"}
         /\ delta[t] = FNeg(arg[t])
         /\ pc[t] = "cas" => newval[t] \in FAdd(u64_to_f64(current[t]), FNeg(arg[t]))
  /\ (ty = "f64" /\ ev.call = "dec_by") =>
       /\ ev.step = "cas"
       /\ ev.ok = (ev.before = ev.loaded)
       /\ ev.ok => u64_to_f64(inner) \in FAdd(u64_to_f64(ev.loaded), FNeg(ev.arg))
       /\ ~ev.ok => inner = ev.before

\* A dec_by that swapped after a failed attempt.
C8_Witness ==
  /\ ty = "f64" /\ ev.call = "dec_by" /\ ev.ok /\ raced
  /\ u64_to_f64(inner) \in FAdd(u64_to_f64(ev.before), FNeg(ev.arg))

\* ------------------------------------------------------------ one set against one inc_by (SpecSetInc)

\* Thread 1 calls set(v) once and thread 2 calls inc_by(d) once on an AtomicF64
\* created with x; get() is called when both have returned.
SetIncX == {F64_ZERO, F64_ONE, F64_2P53}
SetIncV == {F64_ZERO, FNeg(F64_ZERO), F64_ONE, F64_SNAN}
SetIncD == {F64_ZERO, F64_ONE, FNeg(F64_ONE)}

BothDone == calls[1] = 1 /\ calls[2] = 1

InitSetInc ==
  \E x \in SetIncX : \E v \in SetIncV : \E d \in SetIncD :
    ConstructedFor("f64", x, [x |-> x, v |-> v, d |-> d])

NextSetInc ==
  \/ calls[1] = 0 /\ AtomicF64_set(1, plan.v) /\ Plain
  \/ calls[2] = 0 /\ AtomicF64_inc_by(2, plan.d) /\ Plain
  \/ inc_by_load(2) /\ Plain
  \/ inc_by_cas(2) /\ Plain
  \/ \E t \in Threads : BothDone /\ AtomicF64_get(t) /\ Plain

SpecSetInc == InitSetInc /\ [][NextSetInc]_vars

\* C7: after one set(v) and one concurrent inc_by(d) have both returned, the
\* cell holds v (the increment was applied before the set) or v + d (it was
\* applied to the value set).
C7_SetIncOutcomes ==
  ret # None => ret \in ({plan.v} \cup FAdd(plan.v, plan.d))

\* v + d, reached by a retry: the increment loaded x, the set landed, the
\* compare-and-swap failed and the next iteration read v.
C7_Witness ==
  /\ ret # None /\ raced
  /\ ret \in FAdd(plan.v, plan.d) /\ ret # plan.v

\* The other outcome: the increment was applied to x and the set came last.
C7_SetLast ==
  /\ ret # None /\ ev.call = "set"
  /\ ret = plan.v /\ ret \notin FAdd(plan.v, plan.d)

\* C6 as stated: in the interleaving load x; set(v); compare-and-swap, with v
\* different from x, the swap succeeds and the cell ends holding x + d.
SetLanded ==
  /\ ev.step = "cas"
  /\ ev.loaded = f64_to_u64(plan.x)
  /\ ev.before = f64_to_u64(plan.v)
  /\ ev.before # ev.loaded

C6_SetOverwritten ==
  (SetLanded /\ ~IsNaN(plan.v) /\ ~FEq(plan.v, plan.x)) =>
    (ev.ok /\ u64_to_f64(inner) \in FAdd(plan.x, plan.d))

\* C6 as the code has it: when set(v), of another bit pattern than x, lands
\* between the load of x and the compare-and-swap, the swap fails, the cell
\* keeps v and the call does not return but goes round the loop again; the
\* get() after both calls returns v + d.
C6_SetSurvives ==
  /\ SetLanded =>
       (~ev.ok /\ inner = f64_to_u64(plan.v) /\ ~Idle(2) /\ calls[2] = 0)
  /\ (raced /\ ret # None) => ret \in FAdd(plan.v, plan.d)

C6_Witness == SetLanded /\ ~ev.ok /\ raced /\ plan.v = F64_ONE /\ plan.x = F64_ZERO

\* ------------------------------------------------------------ progress (SpecLive)

\* The threads make LiveCalls update calls all together, on a cell created with
\* 0: set(0), inc_by(1), dec_by(1), and get() at any time.
LiveCalls == 3
LiveCan(t) == Started < LiveCalls

InitLive == \E T \in Types : Constructed(T, from_i64(T, Zero))

NextLive ==
  \E t \in Threads :
    \/ LiveCan(t) /\ AtomicI64_set(t, from_i64("i64", Zero)) /\ Plain
    \/ LiveCan(t) /\ AtomicU64_set(t, from_i64("u64", Zero)) /\ Plain
    \/ LiveCan(t) /\ AtomicF64_set(t, from_i64("f64", Zero)) /\ Plain
    \/ AtomicI64_get(t) /\ Plain
    \/ AtomicU64_get(t) /\ Plain
    \/ AtomicF64_get(t) /\ Plain
    \/ LiveCan(t) /\ AtomicI64_inc_by(t, from_i64("i64", One)) /\ Counted(1)
    \/ LiveCan(t) /\ AtomicU64_inc_by(t, from_i64("u64", One)) /\ Counted(1)
    \/ LiveCan(t) /\ AtomicF64_inc_by(t, from_i64("f64", One)) /\ Counted(1)
    \/ LiveCan(t) /\ AtomicI64_dec_by(t, from_i64("i64", One)) /\ Counted(-1)
    \/ LiveCan(t) /\ AtomicU64_dec_by(t, from_i64("u64", One)) /\ Counted(-1)
    \/ LiveCan(t) /\ AtomicF64_dec_by(t, from_i64("f64", One)) /\ Counted(-1)
    \/ inc_by_load(t) /\ Plain
    \/ inc_by_cas(t) /\ Plain

\* The scheduler lets a thread that is inside inc_by's loop take its next step.
\* Each step of the loop moves the thread on (load to compare-and-swap, from
\* there out of the call or back to the load) and no step moves two threads,
\* so the steps of thread t inside the loop are the steps that change pc[t]
\* alone, and one is possible exactly when t is not idle.
Advance(t) ==
  /\ ~Idle(t)
  /\ \E w \in {"idle", "load", "cas"} \ {pc[t]} : pc' = [pc EXCEPT ![t] = w]

SpecLive == InitLive /\ [][NextLive]_vars /\ \A t \in Threads : WF_pc(Advance(t))

\* C5: set, get and the integer inc_by / dec_by are one atomic step, so a thread
\* is only ever found inside a call of AtomicF64's inc_by or dec_by; and such a
\* call returns, the other threads making finitely many writes.
C5_Progress ==
  /\ [](\A t \in Threads : ~Idle(t) => (ty = "f64" /\ op[t] \in {"inc_by", "dec_by"}))
  /\ \A t \in Threads : (~Idle(t)) ~> Idle(t)

\* An inc_by or dec_by has returned from a run in which a swap had failed.
C5_Witness ==
  /\ ty = "f64" /\ raced /\ AllIdle
  /\ ev.step = "cas" /\ ev.ok /\ calls[ev.t] >= 1

\* ------------------------------------------------------------ totality (Spec)

\* Well-formed naturals, integers, f64s and contents of `inner`.
IsNat(a) ==
  /\ \A i \in 1..Len(a) : a[i] \in 0..(Base - 1)
  /\ a # <<>> => a[Len(a)] # 0
IsInt(v) == DOMAIN v = {"neg", "mag"} /\ v.neg \in BOOLEAN /\ IsNat(v.mag)
IsF64(f) ==
  /\ DOMAIN f = {"sign", "exp", "frac"}
  /\ f.sign \in {0, 1}
  /\ f.exp \in 0..ExpMax
  /\ IsNat(f.frac) /\ NatBitLen(f.frac) <= FracBits
ValidWord(T, w) == IsInt(w) /\ (IF T = "i64" THEN IsI64(w) ELSE IsU64(w))
ValidValue(T, v) == IF T = "f64" THEN IsF64(v) ELSE ValidWord(T, v)

\* What each call an idle thread can make now computes, with every argument,
\* is a well-formed content of the cell (set, fetch_add, fetch_sub, get, the
\* entry into inc_by).
CallsDefined ==
  /\ ty = "i64" =>
       \A v \in I64Vals :
         /\ ValidWord(ty, v)
         /\ ValidWord(ty, i64_fetch_add(inner, v))
         /\ ValidWord(ty, i64_fetch_sub(inner, v))
  /\ ty = "u64" =>
       \A v \in U64Vals :
         /\ ValidWord(ty, v)
         /\ ValidWord(ty, u64_fetch_add(inner, v))
         /\ ValidWord(ty, u64_fetch_sub(inner, v))
  /\ ty = "f64" =>
       /\ IsF64(u64_to_f64(inner))
       /\ \A v \in F64Vals : IsF64(FNeg(v)) /\ ValidWord(ty, f64_to_u64(v))

\* So is what the next step of a thread inside inc_by computes.
StepDefined(t) ==
  /\ pc[t] = "load" =>
       /\ IsF64(delta[t])
       /\ FAdd(u64_to_f64(inner), delta[t]) # {}
       /\ \A n \in FAdd(u64_to_f64(inner), delta[t]) : IsF64(n) /\ ValidWord(ty, f64_to_u64(n))
  /\ pc[t] = "cas" =>
       /\ ValidWord(ty, current[t]) /\ IsF64(newval[t])
       /\ ValidWord(ty, compare_and_swap(inner, current[t], f64_to_u64(newval[t])).word)

\* C11: no operation fails: in every reachable state the cell holds a
\* well-formed value of its type, what get() returned is one, every thread is
\* idle or at a step of inc_by's loop, and every operation on the cell, with
\* every argument, can be carried out and leaves such a state again.
C11_Total ==
  /\ ty \in Types
  /\ ValidWord(ty, inner)
  /\ ret # None => ValidValue(ty, ret)
  /\ \A v \in Vals(ty) : ValidWord(ty, new(ty, v))
  /\ \A t \in Threads : pc[t] \in {"idle", "load", "cas"} /\ StepDefined(t)
  /\ (\E t \in Threads : Idle(t)) => CallsDefined

\* AtomicU64 at 0 after dec_by(1): the cell wrapped to u64::MAX, and get() returned it.
C11_Witness ==
  /\ ty = "u64" /\ ev.call = "dec_by" /\ ev.before = Zero /\ ev.arg = One
  /\ ret = U64_MAX

\* ------------------------------------------------------------ sustained contention (SpecStarve)

\* Thread 1 makes one inc_by or dec_by call on an AtomicF64; the other threads
\* call set as often as they like.  Of the interleavings of these calls the
\* scenario keeps those in which a set that changes the cell lands between each
\* load of thread 1 and its compare-and-swap.
Victim == 1
Contenders == Threads \ {Victim}
StarveX == {F64_ZERO, F64_ONE}
StarveD == {F64_ZERO, F64_ONE}
StarveV == {F64_ZERO, F64_ONE, F64_2P53}

InitStarve == \E x \in StarveX : Tallied("f64", x)

NextStarve ==
  \/ \E d \in StarveD : calls[Victim] = 0 /\ AtomicF64_inc_by(Victim, d) /\ Plain
  \/ \E d \in StarveD : calls[Victim] = 0 /\ AtomicF64_dec_by(Victim, d) /\ Plain
  \/ inc_by_load(Victim) /\ Plain
  \/ inner # current[Victim] /\ inc_by_cas(Victim) /\ Plain
  \/ \E t \in Contenders : \E v \in StarveV :
       /\ pc[Victim] = "cas" /\ inner = current[Victim] /\ f64_to_u64(v) # inner
       /\ AtomicF64_set(t, v) /\ Plain

\* The scheduler lets thread 1 take its steps.
SpecStarve == InitStarve /\ [][NextStarve]_vars /\ WF_pc(Advance(Victim))

\* Thread 1 can take its next step, or a contender can make the write after
\* which it can: the scenario never comes to a halt.
StarveGoesOn ==
  \/ Idle(Victim)
  \/ pc[Victim] = "load"
  \/ pc[Victim] = "cas" /\ inner # current[Victim]
  \/ \E t \in Contenders : \E v \in StarveV : Idle(t) /\ f64_to_u64(v) # inner

\* C12: inc_by returns only after a successful compare-and-swap, so under
\* sustained contention it need not return: in the behaviours in which a set
\* changes the cell between each load of thread 1 and its compare-and-swap,
\* which go on for ever, every compare-and-swap of thread 1 fails and leads
\* back to the load, thread 1 never returns, and it retries again and again.
C12_Starvation ==
  /\ [](calls[Victim] = 0)
  /\ []StarveGoesOn
  /\ [][(ev' # ev /\ ev'.t = Victim) => (~ev'.ok /\ pc[Victim] = "cas" /\ pc'[Victim] = "load")]_vars
  /\ (~Idle(Victim)) ~> (pc[Victim] = "cas")
  /\ (~Idle(Victim)) ~> (pc[Victim] = "load" /\ ev.t = Victim /\ ~ev.ok)

\* Thread 1 back at its load after as many failed attempts as are counted.
C12_Witness ==
  /\ pc[Victim] = "load" /\ calls[Victim] = 0
  /\ tally[Victim].fails = CallCap /\ tally[Victim].writes = CallCap
  /\ ev.t = Victim /\ ~ev.ok

\* ------------------------------------------------------------ the attempts of one inc_by (Spec)

\* C13: a call of inc_by or dec_by on AtomicF64 makes exactly one successful
\* compare-and-swap, its last step.  Every attempt starts with a load that
\* leaves the cell alone; a compare-and-swap that finds another content than
\* the one loaded fails, leaves the cell unchanged and leads back to the load;
\* one that finds the loaded content writes that content plus the delta (d for
\* inc_by(d)) and the call returns; and there is no other way out of the call.
C13_AppliedOnce ==
  [][\A t \in Threads :
       /\ op[t] = "inc_by" => delta[t] = arg[t]
       /\ (pc[t] = "load" /\ pc'[t] # "load") =>
            (pc'[t] = "cas" /\ current'[t] = inner /\ inner' = inner /\ calls'[t] = calls[t])
       /\ (pc[t] = "cas" /\ pc'[t] # "cas") =>
            IF inner = current[t]
            THEN /\ u64_to_f64(inner') \in FAdd(u64_to_f64(inner), delta[t])
                 /\ inner' = f64_to_u64(newval[t])
                 /\ pc'[t] = "idle" /\ calls'[t] = calls[t] + 1
                 /\ ev'.t = t /\ ev'.ok /\ ev'.before = inner /\ ev'.loaded = inner
            ELSE /\ inner' = inner
                 /\ pc'[t] = "load" /\ calls'[t] = calls[t]
                 /\ ev'.t = t /\ ~ev'.ok
       /\ (pc[t] = "cas" /\ pc'[t] = "cas") => (inner' = inner \/ ev'.t # t)
       /\ (pc[t] # "idle" /\ pc'[t] = "idle") => (pc[t] = "cas" /\ inner = current[t])
       /\ (ty = "f64" /\ calls'[t] # calls[t] /\ ev'.step = "cas") => (pc[t] = "cas" /\ ev'.ok)
    ]_vars

\* An inc_by that returned from its successful swap after a swap had failed.
C13_Witness ==
  /\ ty = "f64" /\ AllIdle /\ raced
  /\ ev.call = "inc_by" /\ ev.step = "cas" /\ ev.ok /\ ev.before = ev.loaded
  /\ inner # ev.before
  /\ u64_to_f64(inner) \in FAdd(u64_to_f64(ev.before), ev.arg)

\* ------------------------------------------------------------ inc_by(0.0) against a set (SpecSetInc)

\* The successful swap of an inc_by(0.0).
ZeroSwapped ==
  /\ plan.d = F64_ZERO
  /\ ev.t = 2 /\ ev.step = "cas" /\ ev.ok

\* C14 as stated: after inc_by(0.0) has returned the cell holds what the call
\* observed in its last load.
C14_ZeroKeepsLoaded == ZeroSwapped => inner = ev.loaded

\* C14 as the code has it: inc_by(0.0) goes through the load and the
\* compare-and-swap like any other delta: a completed call has swapped; a swap
\* that finds the cell changed since the load fails, leaves the cell alone and
\* the call goes round again; and the successful swap writes (value loaded) +
\* 0.0, which is the loaded bit pattern except that -0.0 becomes +0.0 and a NaN
\* becomes a quiet NaN.
C14_ZeroAddsZero ==
  /\ (plan.d = F64_ZERO /\ calls[2] = 1 /\ calls[1] = 0) => ZeroSwapped
  /\ (plan.d = F64_ZERO /\ ev.t = 2 /\ ev.step = "cas" /\ ev.before # ev.loaded) =>
       (~ev.ok /\ inner = ev.before /\ ~Idle(2) /\ calls[2] = 0)
  /\ ZeroSwapped =>
       /\ ev.before = ev.loaded
       /\ calls[2] = 1
       /\ u64_to_f64(inner) \in FAdd(u64_to_f64(ev.loaded), F64_ZERO)
       /\ IsNaN(u64_to_f64(ev.loaded)) =>
            (IsNaN(u64_to_f64(inner)) /\ Quiet(u64_to_f64(inner)) = u64_to_f64(inner))
       /\ u64_to_f64(ev.loaded) = FNeg(F64_ZERO) => u64_to_f64(inner) = F64_ZERO
       /\ (~IsNaN(u64_to_f64(ev.loaded)) /\ u64_to_f64(ev.loaded) # FNeg(F64_ZERO)) =>
            inner = ev.loaded

\* set(-0.0) landed between the load and the compare-and-swap of inc_by(0.0):
\* the swap failed, the call loaded -0.0 and swapped +0.0 in.
C14_Witness ==
  /\ ZeroSwapped /\ raced
  /\ plan.v = FNeg(F64_ZERO)
  /\ ev.loaded = f64_to_u64(FNeg(F64_ZERO))
  /\ inner = f64_to_u64(F64_ZERO)

\* ------------------------------------------------------------ failed attempts and the writes of others (SpecRetry)

\* The threads make RetryCalls calls all together on an AtomicF64 created with
\* 0: set(1), inc_by(1), dec_by(1); the attempts of the calls are counted.
RetryCalls == 3
RetryCan(t) == Started < RetryCalls

InitRetry == Tallied("f64", F64_ZERO)

NextRetry ==
  \E t \in Threads :
    \/ RetryCan(t) /\ AtomicF64_set(t, F64_ONE) /\ Plain
    \/ RetryCan(t) /\ AtomicF64_inc_by(t, F64_ONE) /\ Plain
    \/ RetryCan(t) /\ AtomicF64_dec_by(t, F64_ONE) /\ Plain
    \/ inc_by_load(t) /\ Plain
    \/ inc_by_cas(t) /\ Plain

SpecRetry == InitRetry /\ [][NextRetry]_vars

\* C15: a compare-and-swap of inc_by fails only when another thread has
\* written the cell (a set or a successful swap) since this iteration's load and
\* the cell no longer holds the value loaded; so a call has never failed more
\* often than other threads have written during it, and while a call is
\* retrying some other thread has completed an operation.
C15_LockFree ==
  /\ \A t \in Threads :
       /\ tally[t].fails <= tally[t].writes
       /\ tally[t].since <= tally[t].writes
       /\ (pc[t] = "cas" /\ inner # current[t]) => tally[t].since >= 1
       /\ tally[t].fails >= 1 =>
            (~Idle(t) /\ \E u \in Threads \ {t} : calls[u] >= 1)
       /\ Idle(t) => tally[t] = NoTally
  /\ (ev.step = "cas" /\ ~ev.ok) =>
       /\ ev.before # ev.loaded
       /\ inner = ev.before
       /\ tally[ev.t].fails >= 1

\* A call that has failed twice, after two writes of the other thread.
C15_Witness ==
  \E t \in Threads :
    /\ pc[t] = "load" /\ ev.t = t /\ ~ev.ok
    /\ tally[t].fails = 2 /\ tally[t].writes = 2

\* ------------------------------------------------------------ what get() observes (Spec)

\* The content of `inner` a value of type T is stored as.
WordOf(T, v) == IF T = "f64" THEN f64_to_u64(v) ELSE v

\* The delta the loop of the call `call(a)` adds.
LoopDelta(call, a) == IF call = "dec_by" THEN FNeg(a) ELSE a

\* The content of the cell is what the latest write attempt left: the initial
\* value, the argument of a set, the result of a fetch_add or fetch_sub, the
\* value a successful compare-and-swap wrote, or, after a failed one, what was
\* there before.
Provenance ==
  /\ ev.step = "new" => (ev.arg = init /\ inner = WordOf(ty, init))
  /\ ev.step = "store" => inner = WordOf(ty, ev.arg)
  /\ ev.step = "fetch_add" => inner \in SumIn(ty, ev.before, ev.arg)
  /\ ev.step = "fetch_sub" => inner \in DiffIn(ty, ev.before, ev.arg)
  /\ (ev.step = "cas" /\ ev.ok) =>
       u64_to_f64(inner) \in FAdd(u64_to_f64(ev.before), LoopDelta(ev.call, ev.arg))
  /\ (ev.step = "cas" /\ ~ev.ok) => inner = ev.before

\* C16: get() leaves the cell (and everything but its result) unchanged and
\* returns the content the cell holds at that moment, bit for bit; that content
\* is always the initial value, the argument of a set or the result of a
\* fetch_add, fetch_sub or successful compare-and-swap; and the writes form one
\* sequence: every change of the cell is a single write, made on the content
\* the previous write left.
C16_ReadsObserve ==
  /\ []Provenance
  /\ [](ret # None => WordOf(ty, ret) = inner)
  /\ [][/\ (ret' # ret /\ ret' # None) =>
             /\ WordOf(ty, ret') = inner
             /\ UNCHANGED <<ty, inner, pc, op, arg, delta, current, newval, calls,
                            init, net, exact, ev, raced, conv, plan, tally>>
        /\ inner' # inner =>
             /\ ev'.ok /\ ev'.before = inner
             /\ ev'.step \in {"store", "fetch_add", "fetch_sub", "cas"}
             /\ ret' = None
        /\ ev' # ev => (ev'.before = inner /\ (~ev'.ok => inner' = inner))
     ]_vars

\* A get() that returned what a successful compare-and-swap had written, after a
\* failed one.
C16_Witness ==
  /\ ty = "f64" /\ ret # None /\ raced
  /\ ev.step = "cas" /\ ev.ok
  /\ f64_to_u64(ret) = inner /\ ret # init

\* ------------------------------------------------------------ set (Spec)

\* C17: set(v) is one atomic store: whatever the cell held, it holds v
\* afterwards and the call has returned in that step; a get() that follows
\* with no write attempt in between returns v.
C17_SetOverwrites ==
  /\ [](ev.step = "store" =>
          /\ ev.call = "set" /\ ev.ok
          /\ inner = WordOf(ty, ev.arg)
          /\ calls[ev.t] >= 1
          /\ ret # None => ret = ev.arg)
  /\ [][(ev' # ev /\ ev'.step = "store") =>
          /\ ev'.before = inner
          /\ inner' = WordOf(ty, ev'.arg)
          /\ Idle(ev'.t) /\ pc' = pc
          /\ calls'[ev'.t] = calls[ev'.t] + 1
       ]_vars

\* set(v) on an AtomicF64 that held another value, made while the other thread
\* was inside inc_by; the get() after it returned v.
C17_Witness ==
  /\ ty = "f64" /\ ev.step = "store" /\ ev.before # inner
  /\ \E t \in Threads : pc[t] = "cas" /\ current[t] = ev.before
  /\ ret = ev.arg

====
